---- MODULE Spec2Model ----
(***************************************************************************)
(* Session memory and chat turn of the DeepSeek dashboard                  *)
(* (src/deepseek-ai.py): class ChatMemory over st.session_state and the    *)
(* function query_deepseek that uses it.                                   *)
(***************************************************************************)
EXTENDS Integers, Sequences, FiniteSets, TLC

\* ------------------------------------------------------------------ bounds
\* Largest max_messages a ChatMemory is constructed with (0..MaxN).
MaxN == 2
\* Largest number of add_message calls between two clear_memory calls.
MaxCalls == 4

\* ------------------------------------------------------------------ inputs
\* Python's None, as a content value (a JSON null in the reply body).
None == "<None>"
\* Text contents handed to add_message directly.
Contents == {"a", "b", ""}
\* User prompts of a chat turn.
Prompts == {"a", "b"}
\* System prompts.
SystemPrompts == {"s", "t"}
\* Roles add_message is called with.
Roles == {"user", "assistant"}
\* HTTP status codes the endpoint answers with.
Statuses == {200, 201, 204, 400, 500}
\* Shapes of a 200 response body: not JSON at all; JSON with "choices": [];
\* JSON without choices / message / content; JSON with a content value.
BodyShapes == {"invalid_json", "empty_choices", "no_content", "content"}
\* Content values of a reply body: a string or null.
ReplyContents == Contents \cup {None}

Message(role, content) == [role |-> role, content |-> content]

VARIABLES
    max_messages,   \* self.max_messages
    has_log,        \* "messages" in st.session_state
    messages,       \* st.session_state.messages      (the display list)
    full_history,   \* st.session_state.full_history  (the context window)
    pc,             \* position inside query_deepseek, "idle" outside it
    turn,           \* locals of the most recent query_deepseek call, with
                    \* the lists as they were when it (or clear_memory) began
    result,         \* how the most recent operation ended
    last_op,        \* the most recent operation
    ctx,            \* return value of the most recent get_context call
    ctx_calls,      \* consecutive get_context calls with the same prompt
                    \* so far (capped at 2)
    calls,          \* messages passed to add_message since the last clear
    prev_reply,     \* prompt and reply of the last turn that returned
                    \* response_data with non-empty content, while no
                    \* add_message or clear_memory has followed it
    upload,         \* process_uploaded_files: its argument, loop position,
                    \* processed_content, warnings and return value
    session,        \* st.session_state: page, DEESEEK_API_KEY, logged_in,
                    \* login_successful
    login           \* the last run of login_page: the key typed, whether
                    \* the button was pressed, whether the run raised

vars == <<max_messages, has_log, messages, full_history, pc, turn, result,
          last_op, ctx, ctx_calls, calls, prev_reply, upload, session, login>>

\* What ChatMemory and query_deepseek never touch.
uivars == <<upload, session, login>>

\* What process_uploaded_files and login_page never touch.
memvars == <<max_messages, has_log, messages, full_history, pc, turn, result,
             last_op, ctx, ctx_calls, calls, prev_reply>>

\* The object and the session it works on, as one value.
State == [max_messages |-> max_messages, has_log |-> has_log,
          messages |-> messages, full_history |-> full_history]

\* ------------------------------------------------------------- ChatMemory

\* Mutant: the membership test is missing, the lists are always recreated.
initialize_session_Always(st) ==
    [st EXCEPT !.has_log = TRUE, !.messages = <<>>, !.full_history = <<>>]

\* initialize_session: creates both lists only when the session has none.
initialize_session(st) ==
    IF ~st.has_log
    THEN [st EXCEPT !.has_log = TRUE, !.messages = <<>>, !.full_history = <<>>]
    ELSE st

\* __init__: sets the bound, then initialize_session.
ChatMemory(st, n) ==
    initialize_session([st EXCEPT !.max_messages = n])

\* removed['content'][:50] inside the f-string: subscripting None raises.
LogTrimRaises(removed) == removed.content = None

\* Mutant: the loop pops the newest entry, pop(), instead of pop(0).
RECURSIVE TrimLoop_PopLast(_, _)
TrimLoop_PopLast(h, n) ==
    IF Len(h) > n
    THEN IF Len(h) = 0
         THEN [hist |-> h, raised |-> TRUE]
         ELSE IF LogTrimRaises(h[Len(h)])
              THEN [hist |-> SubSeq(h, 1, Len(h) - 1), raised |-> TRUE]
              ELSE TrimLoop_PopLast(SubSeq(h, 1, Len(h) - 1), n)
    ELSE [hist |-> h, raised |-> FALSE]

\* Mutant: the loop condition is >= max_messages + 2 (one entry too many kept).
RECURSIVE TrimLoop_OffByOne(_, _)
TrimLoop_OffByOne(h, n) ==
    IF Len(h) > n + 1
    THEN IF LogTrimRaises(Head(h))
         THEN [hist |-> Tail(h), raised |-> TRUE]
         ELSE TrimLoop_OffByOne(Tail(h), n)
    ELSE [hist |-> h, raised |-> FALSE]

\* The while loop of add_message: pop(0) while the window is over the bound.
\* hist is the window when the loop ends or raises.
RECURSIVE TrimLoop(_, _)
TrimLoop(h, n) ==
    IF Len(h) > n
    THEN IF Len(h) = 0
         THEN [hist |-> h, raised |-> TRUE]
         ELSE IF LogTrimRaises(Head(h))
              THEN [hist |-> Tail(h), raised |-> TRUE]
              ELSE TrimLoop(Tail(h), n)
    ELSE [hist |-> h, raised |-> FALSE]

\* Mutant: the display list is trimmed like the window.
add_message_TrimBoth(st, role, content) ==
    LET m == Message(role, content)
        t == TrimLoop(Append(st.full_history, m), st.max_messages)
        d == TrimLoop(Append(st.messages, m), st.max_messages)
    IN  [st |-> [st EXCEPT !.messages = d.hist,
                           !.full_history = t.hist],
         raised |-> t.raised \/ d.raised]

\* add_message: append to both lists, then trim the window.
add_message(st, role, content) ==
    LET m == Message(role, content)
        t == TrimLoop(Append(st.full_history, m), st.max_messages)
    IN  [st |-> [st EXCEPT !.messages = Append(st.messages, m),
                           !.full_history = t.hist],
         raised |-> t.raised]

\* Python's h[start:] for a list h and an integer start.
PySliceFrom(h, start) ==
    LET s0 == IF start < 0 THEN start + Len(h) ELSE start
        s1 == IF s0 < 0 THEN 0 ELSE IF s0 > Len(h) THEN Len(h) ELSE s0
    IN  SubSeq(h, s1 + 1, Len(h))

\* Mutant: the slice starts one entry late, full_history[-(max_messages - 1):].
get_context_OffByOne(st, system_prompt) ==
    [st |-> st,
     ret |-> <<Message("system", system_prompt)>>
             \o PySliceFrom(st.full_history, -(st.max_messages - 1))]

\* Mutant: the context is built by popping the entries off the window.
get_context_Drain(st, system_prompt) ==
    [st |-> [st EXCEPT !.full_history = <<>>],
     ret |-> <<Message("system", system_prompt)>>
             \o PySliceFrom(st.full_history, -st.max_messages)]

\* get_context: the system message, then full_history[-max_messages:].
get_context(st, system_prompt) ==
    [st |-> st,
     ret |-> <<Message("system", system_prompt)>>
             \o PySliceFrom(st.full_history, -st.max_messages)]

\* Mutant: only the display list is cleared.
clear_memory_DisplayOnly(st) ==
    [st EXCEPT !.messages = <<>>]

\* clear_memory: both lists become empty.
clear_memory(st) ==
    [st EXCEPT !.messages = <<>>, !.full_history = <<>>]

\* ---------------------------------------------------------- query_deepseek

\* Mutant: the request carries the display list instead of the window.
payload_messages_FullDisplay(st, system_prompt, prompt) ==
    <<Message("system", system_prompt)>> \o st.messages
    \o <<Message("user", prompt)>>

\* payload["messages"]: the context, then the new user prompt.
payload_messages(st, system_prompt, prompt) ==
    get_context(st, system_prompt).ret \o <<Message("user", prompt)>>

\* response.raise_for_status(): raises HTTPError for a 4xx or 5xx status.
raise_for_status(status) == status >= 400 /\ status < 600

\* Mutant: any 2xx status counts as success.
StatusOk_Any2xx(status) == status >= 200 /\ status < 300

\* if response.status_code == 200
StatusOk(status) == status = 200

\* response.json(): raises when the body is not JSON.
json_raises(body) == body.shape = "invalid_json"

\* response_data.get("choices", [{}])[0].get("message", {}).get("content", "")
\* [][0] raises IndexError; an absent key gives ""; a null content gives None.
extract_content(body) ==
    [raised |-> body.shape = "empty_choices",
     value |-> IF body.shape = "content" THEN body.content ELSE ""]

NoTurn == [prompt |-> "", system_prompt |-> "", messages |-> <<>>,
           pre_messages |-> <<>>, pre_history |-> <<>>, status |-> 0,
           shape |-> "", assistant_response |-> "", outcome |-> "none"]

NoCtx == [system_prompt |-> "", ret |-> <<>>]

NoReply == [prompt |-> "", reply |-> ""]

Bodies ==
    {[shape |-> sh, content |-> ""] : sh \in BodyShapes \ {"content"}}
    \cup {[shape |-> "content", content |-> c] : c \in ReplyContents}

\* The session before the first ChatMemory is constructed.
FreshSession == [max_messages |-> 0, has_log |-> FALSE,
                 messages |-> <<>>, full_history |-> <<>>]

\* Assign the object and session part of the next state from a record.
SetState(st) ==
    /\ max_messages' = st.max_messages
    /\ has_log' = st.has_log
    /\ messages' = st.messages
    /\ full_history' = st.full_history

\* ------------------------------------------------- process_uploaded_files

\* MAX_FILE_CONTENT
MAX_FILE_CONTENT == 1000

\* A Python str, kept as a sequence of runs: text repeated rep times.
Lit(t) == <<[text |-> t, rep |-> 1]>>
Rep(t, n) == IF n = 0 THEN <<>> ELSE <<[text |-> t, rep |-> n]>>

\* len(s)
RECURSIVE StrLen(_)
StrLen(s) ==
    IF s = <<>> THEN 0
    ELSE Len(Head(s).text) * Head(s).rep + StrLen(Tail(s))

\* s[:k] for k >= 0; the runs that are cut hold one character each.
RECURSIVE StrTake(_, _)
StrTake(s, k) ==
    IF s = <<>> \/ k <= 0 THEN <<>>
    ELSE LET n == Len(Head(s).text) * Head(s).rep
         IN  IF n <= k
             THEN <<Head(s)>> \o StrTake(Tail(s), k - n)
             ELSE Rep(Head(s).text, k)

\* Whether s begins with the runs of prefix.
StartsWith(s, prefix) ==
    /\ Len(s) >= Len(prefix)
    /\ SubSeq(s, 1, Len(prefix)) = prefix

\* sep.join(list)
RECURSIVE Join(_, _)
Join(sep, list) ==
    IF list = <<>> THEN <<>>
    ELSE IF Len(list) = 1 THEN Head(list)
    ELSE Head(list) \o sep \o Join(sep, Tail(list))

\* The provenance tag chosen by file.type == "application/pdf".
Tag(file) ==
    IF file.type = "application/pdf" THEN "PDF_CONTENT:" ELSE "FILE_CONTENT:"

\* Mutant: the extracted text is not cut at MAX_FILE_CONTENT.
Excerpt_NoCut(file) ==
    Lit(Tag(file)) \o file.name \o Lit(": ") \o file.text \o Lit("...")

\* f"PDF_CONTENT:{file.name}: {text[:MAX_FILE_CONTENT]}..." and the same
\* with FILE_CONTENT.
Excerpt(file) ==
    Lit(Tag(file)) \o file.name \o Lit(": ")
    \o StrTake(file.text, MAX_FILE_CONTENT) \o Lit("...")

\* Mutant: a failed extraction empties processed_content.
process_one_Reset(acc, file) ==
    IF file.fails
    THEN [processed_content |-> <<>>,
          warnings |-> Append(acc.warnings, file.name)]
    ELSE [processed_content |-> Append(acc.processed_content, Excerpt(file)),
          warnings |-> acc.warnings]

\* One pass of the for loop: the try block appends the excerpt; an
\* exception anywhere in it is logged and shown as a warning instead.
process_one(acc, file) ==
    IF file.fails
    THEN [processed_content |-> acc.processed_content,
          warnings |-> Append(acc.warnings, file.name)]
    ELSE [processed_content |-> Append(acc.processed_content, Excerpt(file)),
          warnings |-> acc.warnings]

NoUpload == [files |-> <<>>, i |-> 0, processed_content |-> <<>>,
             warnings |-> <<>>, ret |-> <<>>, pc |-> "idle"]

\* ------------------------------------------------------------- login_page

\* The right-hand side of line 135, sk - df24b58c2a46492f9092e6ff8233f6a0:
\* two names bound nowhere, so evaluating it raises NameError.
stored_key(api_key) == [raised |-> TRUE, value |-> ""]

\* login_page: the button handler, lines 132-141.
login_page(sess, api_key, pressed) ==
    IF ~pressed THEN [session |-> sess, raised |-> FALSE]
    ELSE IF api_key # ""
    THEN IF stored_key(api_key).raised
         THEN [session |-> sess, raised |-> TRUE]
         ELSE [session |-> [sess EXCEPT !.has_key = TRUE,
                                        !.key = stored_key(api_key).value,
                                        !.logged_in = TRUE,
                                        !.login_successful = TRUE,
                                        !.page = "chat"],
               raised |-> FALSE]
    ELSE [session |-> sess, raised |-> FALSE]

\* st.session_state once lines 221-222 have run for the first time.
FirstRunSession == [page |-> "login", has_key |-> FALSE, key |-> "",
                    logged_in |-> FALSE, login_successful |-> FALSE]

NoLogin == [api_key |-> "", pressed |-> FALSE, raised |-> FALSE]

\* ------------------------------------------------------------------- Init
Init ==
    \E n \in 0..MaxN :
        LET st == ChatMemory(FreshSession, n)
        IN  /\ max_messages = st.max_messages
            /\ has_log = st.has_log
            /\ messages = st.messages
            /\ full_history = st.full_history
            /\ pc = "idle"
            /\ turn = NoTurn
            /\ result = "returned"
            /\ last_op = "init"
            /\ ctx = NoCtx
            /\ ctx_calls = 0
            /\ calls = <<>>
            /\ prev_reply = NoReply
            /\ upload = NoUpload
            /\ session = FirstRunSession
            /\ login = NoLogin

\* ---------------------------------------------------------------- actions

\* main_interface constructs ChatMemory() again on every rerun.
Rerun ==
    /\ pc = "idle"
    /\ SetState(ChatMemory(State, max_messages))
    /\ last_op' = "init"
    /\ result' = "returned"
    /\ turn' = NoTurn
    /\ ctx' = NoCtx
    /\ ctx_calls' = 0
    /\ UNCHANGED <<pc, calls, prev_reply>>
    /\ UNCHANGED uivars

\* A direct call memory.add_message(role, content).
AddMessage(role, content) ==
    /\ pc = "idle"
    /\ Len(calls) < MaxCalls
    /\ LET r == add_message(State, role, content)
       IN  /\ SetState(r.st)
           /\ result' = IF r.raised THEN "raised" ELSE "returned"
    /\ calls' = Append(calls, Message(role, content))
    /\ last_op' = "add_message"
    /\ prev_reply' = NoReply
    /\ turn' = NoTurn
    /\ ctx' = NoCtx
    /\ ctx_calls' = 0
    /\ UNCHANGED pc
    /\ UNCHANGED uivars

\* A direct call memory.get_context(system_prompt).
GetContext(system_prompt) ==
    /\ pc = "idle"
    /\ LET r == get_context(State, system_prompt)
       IN  /\ SetState(r.st)
           /\ ctx' = [system_prompt |-> system_prompt, ret |-> r.ret]
    /\ ctx_calls' = IF last_op = "get_context"
                        /\ ctx.system_prompt = system_prompt
                     THEN 2 ELSE 1
    /\ last_op' = "get_context"
    /\ result' = "returned"
    /\ turn' = NoTurn
    /\ UNCHANGED <<pc, calls, prev_reply>>
    /\ UNCHANGED uivars

\* A direct call memory.clear_memory().
ClearMemory ==
    /\ pc = "idle"
    /\ SetState(clear_memory(State))
    /\ calls' = <<>>
    /\ prev_reply' = NoReply
    /\ last_op' = "clear_memory"
    /\ result' = "returned"
    /\ turn' = [NoTurn EXCEPT !.pre_messages = messages,
                              !.pre_history = full_history]
    /\ ctx' = NoCtx
    /\ ctx_calls' = 0
    /\ UNCHANGED pc
    /\ UNCHANGED uivars

\* query_deepseek, lines 92-101: build the payload and send the request.
QueryBuild(prompt, system_prompt) ==
    /\ pc = "idle"
    /\ Len(calls) + 2 <= MaxCalls
    /\ LET r == get_context(State, system_prompt)
       IN  SetState(r.st)
    /\ turn' = [NoTurn EXCEPT
                  !.prompt = prompt,
                  !.system_prompt = system_prompt,
                  !.messages = payload_messages(State, system_prompt, prompt),
                  !.pre_messages = messages,
                  !.pre_history = full_history,
                  !.outcome = "pending"]
    /\ pc' = "post"
    /\ result' = "pending"
    /\ last_op' = "query_deepseek"
    /\ ctx' = NoCtx
    /\ ctx_calls' = 0
    /\ UNCHANGED <<calls, prev_reply>>
    /\ UNCHANGED uivars

\* requests.post raises a RequestException (no response): lines 116-119.
QueryTransportError ==
    /\ pc = "post"
    /\ turn' = [turn EXCEPT !.outcome = "RequestException"]
    /\ result' = "None"
    /\ pc' = "idle"
    /\ UNCHANGED <<max_messages, has_log, messages, full_history,
                   last_op, ctx, ctx_calls, calls, prev_reply>>
    /\ UNCHANGED uivars

\* A response arrives: lines 102-106 and 113-119.
QueryResponse(status, body) ==
    /\ pc = "post"
    /\ IF raise_for_status(status)
       THEN /\ turn' = [turn EXCEPT !.status = status, !.outcome = "HTTPError"]
            /\ result' = "None"
            /\ pc' = "idle"
       ELSE IF ~StatusOk(status)
       THEN /\ turn' = [turn EXCEPT !.status = status, !.outcome = "not_200"]
            /\ result' = "None"
            /\ pc' = "idle"
       ELSE IF json_raises(body)
       THEN \* requests.JSONDecodeError is a RequestException in requests
            \* 2.27 and later (caught, None); a plain ValueError before.
            /\ turn' = [turn EXCEPT !.status = status, !.shape = body.shape,
                                    !.outcome = "JSONDecodeError"]
            /\ result' \in {"None", "raised"}
            /\ pc' = "idle"
       ELSE IF extract_content(body).raised
       THEN /\ turn' = [turn EXCEPT !.status = status, !.shape = body.shape,
                                    !.outcome = "IndexError"]
            /\ result' = "raised"
            /\ pc' = "idle"
       ELSE /\ turn' = [turn EXCEPT
                          !.status = status, !.shape = body.shape,
                          !.assistant_response = extract_content(body).value,
                          !.outcome = "reply"]
            /\ result' = "pending"
            /\ pc' = "add_user"
    /\ UNCHANGED <<max_messages, has_log, messages, full_history,
                   last_op, ctx, ctx_calls, calls, prev_reply>>
    /\ UNCHANGED uivars

\* Line 108: memory.add_message("user", prompt).
QueryAddUser ==
    /\ pc = "add_user"
    /\ LET r == add_message(State, "user", turn.prompt)
       IN  /\ SetState(r.st)
           /\ result' = IF r.raised THEN "raised" ELSE "pending"
           /\ pc' = IF r.raised THEN "idle" ELSE "add_assistant"
    /\ calls' = Append(calls, Message("user", turn.prompt))
    /\ prev_reply' = NoReply
    /\ UNCHANGED <<turn, last_op, ctx, ctx_calls>>
    /\ UNCHANGED uivars

\* Lines 109-111: memory.add_message("assistant", assistant_response), return.
QueryAddAssistant ==
    /\ pc = "add_assistant"
    /\ LET r == add_message(State, "assistant", turn.assistant_response)
       IN  /\ SetState(r.st)
           /\ result' = IF r.raised THEN "raised" ELSE "response_data"
    /\ pc' = "idle"
    /\ calls' = Append(calls, Message("assistant", turn.assistant_response))
    /\ prev_reply' =
          IF add_message(State, "assistant", turn.assistant_response).raised
             \/ turn.assistant_response \in {"", None}
          THEN NoReply
          ELSE [prompt |-> turn.prompt, reply |-> turn.assistant_response]
    /\ UNCHANGED <<turn, last_op, ctx, ctx_calls>>
    /\ UNCHANGED uivars

Next ==
    \/ Rerun
    \/ \E role \in Roles, content \in Contents : AddMessage(role, content)
    \/ \E p \in SystemPrompts : GetContext(p)
    \/ ClearMemory
    \/ \E prompt \in Prompts, p \in SystemPrompts : QueryBuild(prompt, p)
    \/ QueryTransportError
    \/ \E status \in Statuses, body \in Bodies : QueryResponse(status, body)
    \/ QueryAddUser
    \/ QueryAddAssistant

Spec == Init /\ [][Next]_vars

\* ------------------------------------------- one session, many ChatMemory

\* The session before any ChatMemory exists.
InitFresh ==
    /\ max_messages = FreshSession.max_messages
    /\ has_log = FreshSession.has_log
    /\ messages = FreshSession.messages
    /\ full_history = FreshSession.full_history
    /\ pc = "idle"
    /\ turn = NoTurn
    /\ result = "returned"
    /\ last_op = "none"
    /\ ctx = NoCtx
    /\ ctx_calls = 0
    /\ calls = <<>>
    /\ prev_reply = NoReply
    /\ upload = NoUpload
    /\ session = FirstRunSession
    /\ login = NoLogin

\* ChatMemory(max_messages=n) is constructed on the session, whatever it
\* holds, and is the instance used from then on.
Construct(n) ==
    /\ pc = "idle"
    /\ SetState(ChatMemory(State, n))
    /\ last_op' = "init"
    /\ result' = "returned"
    /\ turn' = NoTurn
    /\ ctx' = NoCtx
    /\ ctx_calls' = 0
    /\ UNCHANGED <<pc, calls, prev_reply>>
    /\ UNCHANGED uivars

\* The operations of ChatMemory and query_deepseek need an instance.
NextSession ==
    \/ \E n \in 0..MaxN : Construct(n)
    \/ (has_log /\ Next)

SpecSession == InitFresh /\ [][NextSession]_vars

\* ------------------------------------------- one session, one ChatMemory

\* The first ChatMemory of the session; main_interface's later ones are
\* Rerun.
NextFresh ==
    \/ \E n \in 0..MaxN : (~has_log /\ Construct(n))
    \/ (has_log /\ Next)

SpecFresh == InitFresh /\ [][NextFresh]_vars

\* ------------------------------------- login page and uploaded files

\* Largest number of files in one upload.
MaxFiles == 2

\* File names.
FileNames == {Lit("f"), Lit("gg")}
\* file.type
FileTypes == {"application/pdf", "text/plain"}
\* Lengths of the text extracted from a file (the PDF pages' text, or the
\* decoded bytes), around the cap.
TextLens == {0, 1, MAX_FILE_CONTENT, MAX_FILE_CONTENT + 1}
\* Uploaded files: those whose try block runs through, with their text, and
\* those for which it raises (pdfplumber, read, decode with encoding None).
Files ==
    {[name |-> nm, type |-> ty, text |-> Rep("x", n), fails |-> FALSE] :
        nm \in FileNames, ty \in FileTypes, n \in TextLens}
    \cup {[name |-> nm, type |-> ty, text |-> <<>>, fails |-> TRUE] :
        nm \in FileNames, ty \in FileTypes}
FileLists == UNION {[1..n -> Files] : n \in 0..MaxFiles}
\* What the user types into the API key field.
ApiKeys == {"", "k1", "k2"}

\* process_uploaded_files(files) is called: line 61.
UploadStart(fs) ==
    /\ upload.pc = "idle"
    /\ upload' = [NoUpload EXCEPT !.files = fs, !.i = 1, !.pc = "loop"]
    /\ UNCHANGED <<memvars, session, login>>

\* One pass of the for loop, lines 62-80.
UploadStep ==
    /\ upload.pc = "loop"
    /\ upload.i <= Len(upload.files)
    /\ LET r == process_one([processed_content |-> upload.processed_content,
                             warnings |-> upload.warnings],
                            upload.files[upload.i])
       IN  upload' = [upload EXCEPT
                        !.processed_content = r.processed_content,
                        !.warnings = r.warnings,
                        !.i = upload.i + 1]
    /\ UNCHANGED <<memvars, session, login>>

\* Line 81: return "\n".join(processed_content).
UploadReturn ==
    /\ upload.pc = "loop"
    /\ upload.i > Len(upload.files)
    /\ upload' = [upload EXCEPT
                    !.ret = Join(Lit("\n"), upload.processed_content),
                    !.pc = "done"]
    /\ UNCHANGED <<memvars, session, login>>

\* One run of the script, lines 220-227, with the key field holding api_key
\* and the login button pressed or not. Runs of the script do not overlap.
LoginRun(api_key, pressed) ==
    /\ upload.pc # "loop"
    /\ IF session.page = "login" \/ ~session.has_key
       THEN LET r == login_page(session, api_key, pressed)
            IN  /\ session' = r.session
                /\ login' = [api_key |-> api_key, pressed |-> pressed,
                             raised |-> r.raised]
       ELSE /\ session' = session
            /\ login' = NoLogin
    /\ UNCHANGED <<memvars, upload>>

NextUI ==
    \/ \E fs \in (IF upload.pc = "idle" THEN FileLists ELSE {}) :
          UploadStart(fs)
    \/ UploadStep
    \/ UploadReturn
    \/ \E k \in ApiKeys, pressed \in BOOLEAN : LoginRun(k, pressed)

SpecUI == InitFresh /\ [][NextUI]_vars

\* ----------------------------------------------------------------- claims

Min(a, b) == IF a < b THEN a ELSE b

\* The last k entries of s.
LastN(s, k) == SubSeq(s, Len(s) - k + 1, Len(s))

\* C1: the context window never holds more than max_messages messages,
\* after every add_message, in any sequence of operations.
WindowBound == Len(full_history) <= max_messages

\* C1 witness: an add_message filled the window to its bound and evicted.
WindowBoundWitness ==
    /\ last_op = "add_message"
    /\ max_messages >= 1
    /\ Len(full_history) = max_messages
    /\ Len(calls) > max_messages

\* C2: the display list is exactly the messages added since the last clear,
\* in call order, also when there are more of them than max_messages.
DisplayKeepsAll == messages = calls

\* C2 witness: more messages were added than the window can hold.
DisplayKeepsAllWitness ==
    /\ Len(calls) >= 3
    /\ Len(calls) > max_messages
    /\ Len(full_history) < Len(messages)

\* C3: the window is the last min(k, max_messages) of the k messages added
\* since the last clear, in the order they were added (FIFO eviction).
FifoEviction ==
    full_history = LastN(calls, Min(Len(calls), max_messages))

\* C3 witness: max_messages = 2 and adds a, b, a leave the window [b, a].
FifoEvictionWitness ==
    /\ max_messages = 2
    /\ calls = <<Message("user", "a"), Message("assistant", "b"),
                 Message("user", "a")>>
    /\ full_history = <<Message("assistant", "b"), Message("user", "a")>>

\* C4: get_context(p) is the system message {system, p} followed by the
\* window entries in window order and nothing else, in every state; on an
\* empty log it is the one system message.
GetContextResult ==
    /\ last_op = "get_context" =>
          ctx.ret = <<Message("system", ctx.system_prompt)>> \o full_history
    /\ \A p \in SystemPrompts :
          /\ get_context(State, p).ret[1] = Message("system", p)
          /\ Tail(get_context(State, p).ret) = full_history

\* C4 witness: get_context returned with a full window of two entries, after
\* an eviction.
GetContextResultWitness ==
    /\ last_op = "get_context"
    /\ Len(full_history) = 2
    /\ Len(messages) > 2
    /\ Len(ctx.ret) = 3

\* C5: a get_context call leaves the display list, the window and
\* max_messages as they were, and the second of two consecutive calls with
\* the same prompt returns what the first returned.
GetContextReadOnly ==
    [][last_op' = "get_context" =>
          /\ messages' = messages
          /\ full_history' = full_history
          /\ max_messages' = max_messages
          /\ has_log' = has_log
          /\ (last_op = "get_context"
              /\ ctx'.system_prompt = ctx.system_prompt)
                 => ctx'.ret = ctx.ret]_vars

\* C5 witness: two consecutive get_context calls with the same prompt on a
\* non-empty window.
GetContextReadOnlyWitness ==
    /\ last_op = "get_context"
    /\ ctx_calls = 2
    /\ Len(full_history) >= 1

\* C6: clear_memory empties the display list and the window, get_context(p)
\* then returns the system message alone, and max_messages is unchanged.
ClearMemoryResets ==
    [][last_op' = "clear_memory" =>
          /\ messages' = <<>>
          /\ full_history' = <<>>
          /\ max_messages' = max_messages
          /\ \A p \in SystemPrompts :
                get_context(State, p).ret' = <<Message("system", p)>>]_vars

\* C6 witness: clear_memory ran on a log with evicted messages.
ClearMemoryResetsWitness ==
    /\ last_op = "clear_memory"
    /\ Len(turn.pre_messages) > Len(turn.pre_history)
    /\ Len(turn.pre_history) >= 1
    /\ messages = <<>>

\* The round trip failed: a transport error, or any status other than 200.
FailedRoundTrip ==
    \/ turn.outcome = "RequestException"
    \/ (turn.status # 0 /\ turn.status # 200)

\* C7: after a transport error or a status other than 200, the display list
\* and the window are what they were before the call, and query_deepseek
\* has returned None.
FailedTurnUntouched ==
    (last_op = "query_deepseek" /\ FailedRoundTrip) =>
        /\ pc = "idle"
        /\ result = "None"
        /\ messages = turn.pre_messages
        /\ full_history = turn.pre_history

\* C7 witness: a 204 answer on a non-empty log.
FailedTurnUntouchedWitness ==
    /\ last_op = "query_deepseek"
    /\ turn.status = 204
    /\ pc = "idle"
    /\ Len(turn.pre_history) >= 1

\* The reply of a 200 answer has empty, null or missing content.
EmptyReply ==
    /\ turn.outcome = "reply"
    /\ turn.assistant_response \in {"", None}

\* C8: a 200 answer whose assistant content is empty or missing leaves the
\* display list and the window as they were before the turn.
EmptyReplyNoMutation ==
    (last_op = "query_deepseek" /\ EmptyReply) =>
        /\ messages = turn.pre_messages
        /\ full_history = turn.pre_history

\* C9: during a chat turn the display list and the window keep their
\* pre-turn values until the response is in; the turn ends with the display
\* list grown by {user, prompt} then {assistant, reply} when the answer was
\* 200 with non-empty content, and with the lists untouched otherwise.
UpdateOnlyAfterRoundTrip ==
    last_op = "query_deepseek" =>
        /\ pc \in {"post", "add_user"} =>
              /\ messages = turn.pre_messages
              /\ full_history = turn.pre_history
        /\ pc = "add_assistant" =>
              messages = Append(turn.pre_messages,
                                Message("user", turn.prompt))
        /\ pc = "idle" =>
              IF turn.outcome = "reply" /\ ~EmptyReply
              THEN messages = turn.pre_messages
                              \o <<Message("user", turn.prompt),
                                   Message("assistant",
                                           turn.assistant_response)>>
              ELSE /\ messages = turn.pre_messages
                   /\ full_history = turn.pre_history

\* C10: the request of a chat turn carries the system message, the pre-turn
\* window in order and the user prompt last: at most max_messages + 2
\* messages.
RequestMessageList ==
    last_op = "query_deepseek" =>
        /\ turn.messages =
              <<Message("system", turn.system_prompt)>>
              \o turn.pre_history
              \o <<Message("user", turn.prompt)>>
        /\ Len(turn.messages) <= max_messages + 2

\* C10 witness: a request sent with a full window, after earlier messages
\* were evicted.
RequestMessageListWitness ==
    /\ pc = "post"
    /\ max_messages >= 1
    /\ Len(turn.pre_history) = max_messages
    /\ Len(turn.pre_messages) > max_messages
    /\ Len(turn.messages) = max_messages + 2

\* C11: constructing a ChatMemory (initialize_session) on a session that
\* holds a log leaves the display list and the window exactly as they were;
\* on a session without a log it creates both lists, empty.
IdempotentInit ==
    [][last_op' = "init" =>
          /\ has_log'
          /\ IF has_log
             THEN /\ messages' = messages
                  /\ full_history' = full_history
             ELSE /\ messages' = <<>>
                  /\ full_history' = <<>>]_vars

\* C11 witness: a ChatMemory was constructed on a session whose log holds
\* messages, some of them already evicted from the window.
IdempotentInitWitness ==
    /\ last_op = "init"
    /\ Len(full_history) >= 1
    /\ Len(messages) > Len(full_history)

\* C12: with max_messages >= 2, the request of the turn that follows a
\* successful turn (prompt p, non-empty reply r, nothing added or cleared
\* since) ends with {user, p}, {assistant, r} and the new user prompt.
HistoryCarriesOver ==
    (pc = "post" /\ prev_reply # NoReply /\ max_messages >= 2) =>
        /\ Len(turn.messages) >= 4
        /\ LastN(turn.messages, 3) =
              <<Message("user", prev_reply.prompt),
                Message("assistant", prev_reply.reply),
                Message("user", turn.prompt)>>

\* C12 witness: a second turn is being sent after a successful first one.
HistoryCarriesOverWitness ==
    /\ pc = "post"
    /\ max_messages >= 2
    /\ prev_reply = [prompt |-> "a", reply |-> "b"]
    /\ turn.prompt = "b"

\* C13: for every instance bound max_messages >= 0 and every content of the
\* shared window, get_context returns the system message followed by the
\* last min(len(window), max_messages) window entries.
GetContextSuffix ==
    has_log =>
        \A p \in SystemPrompts :
            /\ Len(get_context(State, p).ret) =
                  1 + Min(Len(full_history), max_messages)
            /\ get_context(State, p).ret =
                  <<Message("system", p)>>
                  \o LastN(full_history, Min(Len(full_history), max_messages))

\* C14: every add_message call (direct, or made by query_deepseek) returns
\* without raising, and on a window within its bound it removes at most one
\* entry.
AddMessageNeverFails ==
    [][Len(calls') = Len(calls) + 1 =>
          /\ result' # "raised"
          /\ Len(full_history) <= max_messages =>
                Len(full_history') >= Len(full_history)]_vars

\* C15: whatever the outcome of a chat turn, when query_deepseek is over the
\* display list has grown by nothing or by the pair {user, prompt},
\* {assistant, reply}, never by the user message alone.
TurnAtomicity ==
    (last_op = "query_deepseek" /\ pc = "idle") =>
        \/ messages = turn.pre_messages
        \/ messages = turn.pre_messages
                       \o <<Message("user", turn.prompt),
                            Message("assistant", turn.assistant_response)>>

\* The files of a list whose extraction succeeds, in order.
RECURSIVE Succeeded(_)
Succeeded(fs) ==
    IF fs = <<>> THEN <<>>
    ELSE IF Head(fs).fails THEN Succeeded(Tail(fs))
    ELSE <<Head(fs)>> \o Succeeded(Tail(fs))

\* The files of a list whose extraction raises, in order.
RECURSIVE Failed(_)
Failed(fs) ==
    IF fs = <<>> THEN <<>>
    ELSE IF Head(fs).fails THEN <<Head(fs)>> \o Failed(Tail(fs))
    ELSE Failed(Tail(fs))

\* C16: process_uploaded_files returns the newline-joined excerpts of
\* exactly the files whose extraction succeeded, in upload order; each file
\* whose extraction raised is reported, and the files after it are processed.
ExtractionIsolated ==
    upload.pc = "done" =>
        LET ok == Succeeded(upload.files)
            bad == Failed(upload.files)
        IN  /\ upload.i = Len(upload.files) + 1
            /\ upload.ret =
                  Join(Lit("\n"), [k \in 1..Len(ok) |-> Excerpt(ok[k])])
            /\ upload.warnings = [k \in 1..Len(bad) |-> bad[k].name]

\* C16 witness: the first file failed and the second was still processed.
ExtractionIsolatedWitness ==
    /\ upload.pc = "done"
    /\ Len(upload.files) = 2
    /\ upload.files[1].fails
    /\ ~upload.files[2].fails
    /\ upload.ret = Excerpt(upload.files[2])
    /\ Len(upload.warnings) = 1

\* The characters an excerpt adds around the text: the tag, the file name,
\* ": " and "...".
Wrapper(file) == StrLen(Lit(Tag(file))) + StrLen(file.name) + 2 + 3

\* C17 as stated: every string produced for a file is at most
\* MAX_FILE_CONTENT characters long and begins with the tag and the name.
ExcerptWithinCap ==
    LET ok == Succeeded(upload.files)
    IN  \A k \in 1..Len(upload.processed_content) :
            /\ StrLen(upload.processed_content[k]) <= MAX_FILE_CONTENT
            /\ StartsWith(upload.processed_content[k],
                          Lit(Tag(ok[k])) \o ok[k].name)

\* C17 amended: the text carried by the string is at most MAX_FILE_CONTENT
\* characters, so the string is at most MAX_FILE_CONTENT plus the tag, the
\* name and the five characters ": " and "..." long; it begins with the tag
\* and the name.
ExcerptTextCapped ==
    LET ok == Succeeded(upload.files)
    IN  \A k \in 1..Len(upload.processed_content) :
            /\ StrLen(upload.processed_content[k])
                  <= MAX_FILE_CONTENT + Wrapper(ok[k])
            /\ StrLen(upload.processed_content[k]) - Wrapper(ok[k])
                  <= StrLen(ok[k].text)
            /\ StartsWith(upload.processed_content[k],
                          Lit(Tag(ok[k])) \o ok[k].name)

\* C17 witness: a file whose text is longer than the cap was processed.
ExcerptTextCappedWitness ==
    /\ upload.pc = "done"
    /\ Len(upload.files) = 2
    /\ \A k \in 1..2 :
          /\ ~upload.files[k].fails
          /\ StrLen(upload.files[k].text) > MAX_FILE_CONTENT
    /\ StrLen(upload.processed_content[2])
          = MAX_FILE_CONTENT + Wrapper(upload.files[2])

\* C18: a run of the login page with the button pressed and a non-empty key
\* stores that key, sets the logged-in flag and sets the page to 'chat';
\* with an empty key it leaves the stored key, the flag and the page as
\* they were.
LoginTransition ==
    [][(upload' = upload /\ login'.pressed) =>
          IF login'.api_key # ""
          THEN /\ session'.has_key
               /\ session'.key = login'.api_key
               /\ session'.logged_in
               /\ session'.page = "chat"
          ELSE session' = session]_vars

====
